---- MODULE Spec2Model ----
(***************************************************************************)
(* Model of the authenticated WebSocket connection gateway:                *)
(*   src/src/services/auth.service.ts  (JWKS cache, token validation,      *)
(*                                      token extraction, authentication)  *)
(*   src/src/handlers/connect.ts       ($connect handler)                  *)
(*   src/unnamed/part_001              (message.service.ts, handleMessage) *)
(*   src/unnamed/part_002              (local servers, registry/push mocks)*)
(*                                                                         *)
(* JavaScript values are modelled as follows.  Strings that are tokens are *)
(* the names in Tokens; "" is the empty string; Absent stands for a        *)
(* missing property / null / undefined.  A call that may throw returns a   *)
(* record whose kind is "ok" or "throw".  config.region and                *)
(* config.cognito.userPoolId are taken as configured values.               *)
(***************************************************************************)
EXTENDS Integers, Sequences, FiniteSets, TLC

(* ------------------------------------------------------------------ *)
(* Bounds and constants                                                *)
(* ------------------------------------------------------------------ *)

\* Connection ids the transport hands out (two, so that handlers overlap).
ConnIds == {"c1", "c2"}

\* The clock advances in steps of half a cache TTL, at most MaxTicks times.
MaxTicks == 2

\* auth.service.ts:16
JWKS_CACHE_TTL == 24 * 60 * 60 * 1000

TickMs == JWKS_CACHE_TTL \div 2

Absent == "<absent>"

(* ------------------------------------------------------------------ *)
(* Tokens (inputs): what jwt.decode / jwt.verify see in each of them   *)
(* ------------------------------------------------------------------ *)

\* tA: well-formed, signed with key k1, claims valid, sub u1
\* tB: well-formed, signed with key k2 (the rotated key), claims valid,
\*     no sub claim, username bob
\* tBadSig: header kid k1, signature does not verify
\* tBadClaims: signed with k1, wrong issuer or expired
\* tNoKid: decodable, header carries no kid
\* tGarbage: not decodable
Tokens == {"tA", "tB", "tBadSig", "tBadClaims", "tNoKid", "tGarbage"}

Decodable(t) == t \in {"tA", "tB", "tBadSig", "tBadClaims", "tNoKid"}

Kid(t) ==
  CASE t \in {"tA", "tBadSig", "tBadClaims"} -> "k1"
    [] t = "tB" -> "k2"
    [] OTHER -> Absent

SignedBy(t) ==
  CASE t \in {"tA", "tBadClaims"} -> "k1"
    [] t = "tB" -> "k2"
    [] OTHER -> "forged"

ClaimsOk(t) == t \in {"tA", "tB", "tBadSig"}

Sub(t) == IF t = "tA" THEN "u1" ELSE Absent

Username(t) ==
  CASE t = "tA" -> "alice"
    [] t = "tB" -> "bob"
    [] OTHER -> Absent

Email(t) == IF t = "tA" THEN "alice@example.com" ELSE Absent

\* A token the identity provider issued and that has not expired.
ValidToken(t) == Decodable(t) /\ Kid(t) # Absent /\ SignedBy(t) = Kid(t) /\ ClaimsOk(t)

(* ------------------------------------------------------------------ *)
(* $connect events (inputs)                                            *)
(* ------------------------------------------------------------------ *)

\* qsp:  queryStringParameters.token          (Absent, "" or a token)
\* mv:   multiValueQueryStringParameters.token (Absent or a list)
\* path: requestContext.http.path: Absent, "noMatch" (no token= in it),
\*       "malformed" (token=%, not URI-decodable) or the token it carries
\* auth: headers.Authorization: Absent or [bearer, val]
NoAuthHeader == [present |-> FALSE, bearer |-> FALSE, val |-> ""]

AuthHeaders ==
  {NoAuthHeader} \cup
  [present : {TRUE}, bearer : BOOLEAN, val : {"", "tA"}]

MvValues == {<<>>, <<"">>, <<"tA">>, <<"tBadSig", "tA">>}

EventSpace ==
  [qsp  : {Absent, ""} \cup Tokens,
   mv   : {<<Absent>>} \cup MvValues,
   path : {Absent, "noMatch", "malformed", "tA"},
   auth : AuthHeaders]

NoSourceEvent ==
  [qsp |-> Absent, mv |-> <<Absent>>, path |-> Absent, auth |-> NoAuthHeader]

\* The number of sources an event carries something in.
SourcesPresent(ev) ==
  (IF ev.qsp # Absent THEN 1 ELSE 0) + (IF ev.mv # <<Absent>> THEN 1 ELSE 0)
  + (IF ev.path # Absent THEN 1 ELSE 0) + (IF ev.auth.present THEN 1 ELSE 0)

\* The $connect events the transport delivers in this model.
ConnectEvents == {ev \in EventSpace : SourcesPresent(ev) <= 1}

(* ------------------------------------------------------------------ *)
(* Results of calls that may throw                                     *)
(* ------------------------------------------------------------------ *)

NoUser == [sub |-> Absent, username |-> Absent, email |-> Absent]

\* An error message is a sequence of its parts, so that a prefix can be added.
Ok(v) == [kind |-> "ok", val |-> v, msg |-> <<>>]

Throw(m) == [kind |-> "throw", val |-> Absent, msg |-> m]

(* ------------------------------------------------------------------ *)
(* auth.service.ts: extractTokenFromEvent                              *)
(* ------------------------------------------------------------------ *)

\* JavaScript truthiness of a string-or-missing value.
Truthy(v) == v # Absent /\ v # ""

\* The Authorization header as one string is (bearer ? "Bearer " : "") + val.
AuthHeaderTruthy(h) == h.present /\ (h.bearer \/ h.val # "")

extractTokenFromEvent(ev) ==
  IF Truthy(ev.qsp) THEN Ok(ev.qsp)
  ELSE IF ev.mv # <<Absent>>
    THEN Ok(IF Len(ev.mv) = 0 THEN Absent ELSE ev.mv[1])
  ELSE IF ev.path = "malformed" THEN Throw(<<"URI malformed">>)
  ELSE IF ev.path \notin {Absent, "noMatch"} THEN Ok(ev.path)
  ELSE IF AuthHeaderTruthy(ev.auth) THEN Ok(ev.auth.val)
  ELSE Ok(Absent)

(* ------------------------------------------------------------------ *)
(* auth.service.ts: the JWKS cache and getJwks                         *)
(* ------------------------------------------------------------------ *)

\* let jwksCache: JwksCache | null = null
NoCache == [present |-> FALSE, keys |-> {}, timestamp |-> 0]

\* getJwks, line 26: the cached keys are used when this holds.
CacheFreshTtlInSeconds(cache, t) ==
  cache.present /\ t - cache.timestamp < JWKS_CACHE_TTL \div 1000

CacheFreshInclusive(cache, t) ==
  cache.present /\ t - cache.timestamp <= JWKS_CACHE_TTL

CacheFresh(cache, t) ==
  cache.present /\ t - cache.timestamp < JWKS_CACHE_TTL

\* getJwks, lines 38-41: the cache after a successful fetch by a call that
\* read the clock as t.
FetchedCache(keys, t) == [present |-> TRUE, keys |-> keys, timestamp |-> t]

\* getJwks, lines 44-47: what the call does when the fetch fails.
CacheAfterFetchClearsOnFailure(cache, ok, keys, t) ==
  IF ok THEN FetchedCache(keys, t) ELSE NoCache

\* lines 35-47: the cache is assigned only after axios.get has resolved;
\* when it rejects control goes to the catch and the cache is not touched.
CacheAfterFetch(cache, ok, keys, t) ==
  IF ok THEN FetchedCache(keys, t) ELSE cache

FetchFailed(cache) == Throw(<<"Failed to retrieve JWKS">>)

(* ------------------------------------------------------------------ *)
(* auth.service.ts: validateToken                                      *)
(* ------------------------------------------------------------------ *)

\* lines 62-74: jwt.decode and the header check
DecodeHeader(t) ==
  IF Decodable(t) /\ Kid(t) # Absent THEN Ok(Kid(t))
  ELSE Throw(<<"Invalid token format">>)

\* lines 85-91: jwkToPem and jwt.verify against the key found
VerifyToken(t, kid) ==
  IF SignedBy(t) # kid THEN Throw(<<"invalid signature">>)
  ELSE IF ~ClaimsOk(t) THEN Throw(<<"jwt claims invalid">>)
  ELSE Ok([sub |-> Sub(t), username |-> Username(t), email |-> Email(t)])

\* lines 78-93: the body of the try block once getJwks has settled
LookupAndVerify(t, jwks) ==
  IF jwks.kind = "throw" THEN jwks
  ELSE IF Kid(t) \notin jwks.val THEN Throw(<<"No matching key found in JWKS">>)
  ELSE VerifyToken(t, Kid(t))

\* lines 94-97: the catch block
WrapInvalidToken(r) ==
  IF r.kind = "throw" THEN Throw(<<"Invalid token: ">> \o r.msg) ELSE r

\* validateToken up to its call of getJwks: a result, or "needs the keys"
ValidateBeforeJwks(t) == WrapInvalidToken(DecodeHeader(t))

\* validateToken from the point getJwks settles with jwks
ValidateAfterJwks(t, jwks) == WrapInvalidToken(LookupAndVerify(t, jwks))

(* ------------------------------------------------------------------ *)
(* auth.service.ts: authenticateConnection                             *)
(* ------------------------------------------------------------------ *)

AuthFailed(m) == [kind |-> "ok", authenticated |-> FALSE, user |-> NoUser, error |-> m]

AuthThrown(m) == [kind |-> "throw", authenticated |-> FALSE, user |-> NoUser, error |-> m]

AuthPassed(u) == [kind |-> "ok", authenticated |-> TRUE, user |-> u, error |-> <<>>]

\* lines 185-193: the catch block turns anything thrown into a result
AuthCatchRethrows(r) == AuthThrown(r.msg)

AuthCatch(r) == AuthFailed(r.msg)

\* lines 170-175
NoTokenResultAnonymous == AuthPassed(NoUser)

NoTokenResult == AuthFailed(<<"No authentication token provided">>)

\* lines 177-184 and the catch: from the settled validateToken to the result
AuthFromValidation(r) ==
  IF r.kind = "throw" THEN AuthCatch(r) ELSE AuthPassed(r.val)

(* ------------------------------------------------------------------ *)
(* connect.ts: the $connect handler                                    *)
(* ------------------------------------------------------------------ *)

\* lines 36-46 and 65-68: what the handler does with the settled
\* authenticateConnection
AfterAuthSavesAnyway(auth) ==
  IF auth.kind = "throw" THEN "error500" ELSE "save"

AfterAuth(auth) ==
  CASE auth.kind = "throw" -> "error500"
    [] auth.kind = "ok" /\ ~auth.authenticated -> "reject401"
    [] OTHER -> "save"

\* lines 52-61: the record handed to saveConnection
ConnectionItemUsernameFirst(id, user) ==
  [connectionId |-> id,
   userId |-> IF Truthy(user.username) THEN user.username ELSE user.sub,
   userEmail |-> user.email,
   isAuthenticated |-> TRUE]

ConnectionItemFlagFromSub(id, user) ==
  [connectionId |-> id,
   userId |-> IF Truthy(user.sub) THEN user.sub ELSE user.username,
   userEmail |-> user.email,
   isAuthenticated |-> Truthy(user.sub)]

ConnectionItem(id, user) ==
  [connectionId |-> id,
   userId |-> IF Truthy(user.sub) THEN user.sub ELSE user.username,
   userEmail |-> user.email,
   isAuthenticated |-> TRUE]

AfterSaveRetries(saved) == IF saved THEN "return" ELSE "retry"

\* lines 52-68: once saveConnection has settled, resolved or rejected, the
\* handler returns; the write is not attempted again.
AfterSave(saved) == "return"

\* line 64 / line 67: the status once saveConnection has settled
StatusAfterSaveSwallowsError(saved) == 200

StatusAfterSave(saved) == IF saved THEN 200 ELSE 500

(* ------------------------------------------------------------------ *)
(* The registry (connection.service.ts over the DynamoDB table, as the *)
(* local servers' in-memory Map implements it)                         *)
(* ------------------------------------------------------------------ *)

EmptyRegistry == [x \in {} |-> NoUser]

\* PutCommand: connections.set(item.connectionId, item)
Put(reg, id, item) ==
  [x \in DOMAIN reg \cup {id} |-> IF x = id THEN item ELSE reg[x]]

DeleteWrongKey(reg, id) == reg

\* DeleteCommand: connections.delete(connectionId)
Delete(reg, id) == [x \in DOMAIN reg \ {id} |-> reg[x]]

(* ------------------------------------------------------------------ *)
(* State                                                               *)
(* ------------------------------------------------------------------ *)

VARIABLES
  now,        \* Date.now()
  jwksCache,  \* auth.service.ts: the module-level jwksCache
  idpKeys,    \* the key ids the identity provider publishes
  registry,   \* connection id -> stored record
  conn,       \* per connection id: the $connect invocation in flight
  admitted,   \* history: ids whose admission succeeded, not disconnected since
  last        \* history: what the last step did

vars == <<now, jwksCache, idpKeys, registry, conn, admitted, last>>

\* No $connect invocation in flight.
Idle ==
  [pc |-> "idle", tok |-> Absent, nosrc |-> FALSE, at |-> 0, seen |-> NoCache,
   auth |-> AuthFailed(<<>>), fetches |-> 0, keyFound |-> FALSE,
   afterClosed |-> FALSE]

\* No getJwks call settled in the step.
(* ------------------------------------------------------------------ *)
(* Inbound message frames and the local servers' listeners             *)
(* ------------------------------------------------------------------ *)

\* A text frame as the listeners see it: json tells what JSON.parse does
\* with it (throws, yields null, yields an object), action and data are the
\* parsed object's fields.
Actions == {Absent, "", "message", "ping", "$default"}

Bodies ==
  [json : {"object"}, action : Actions, data : {Absent, "d1"}]
    \cup [json : {"invalid", "null"}, action : {Absent}, data : {Absent}]

NoBody == [json |-> "invalid", action |-> Absent, data |-> Absent]

\* What a listener sends back on the socket.
NoSent ==
  [message |-> Absent, data |-> Absent, receivedAction |-> Absent,
   error |-> Absent]

JsonParse(body) ==
  IF body.json = "invalid" THEN Throw(<<"SyntaxError">>) ELSE Ok(body)

\* Reading .action of the parsed value: a TypeError when the value is null.
ActionOf(parsed) ==
  IF parsed.json = "null" THEN Throw(<<"TypeError">>) ELSE Ok(parsed.action)

InvalidFormatNotice ==
  [NoSent EXCEPT !.error = "Error processing message",
                 !.message = "Invalid message format"]

DefaultResponseOmitsAction(action) ==
  [NoSent EXCEPT !.message = "Unknown action type. Please send a valid action."]

\* The default branch of the standalone server: names the action received.
DefaultResponse(action) ==
  [NoSent EXCEPT !.message = "Unknown action type. Please send a valid action.",
                 !.receivedAction = IF Truthy(action) THEN action
                                    ELSE "undefined"]

EchoResponse(data) ==
  [NoSent EXCEPT !.message = "Hello World", !.data = data]

\* local-server.ts message listener: parse, branch on the action, answer;
\* anything thrown on the way is answered with the invalid-format notice.
LocalListener(body) ==
  LET parsed == JsonParse(body)
      action == IF parsed.kind = "ok" THEN ActionOf(parsed.val) ELSE parsed
  IN IF action.kind = "throw"
       THEN [route |-> "catch", sent |-> InvalidFormatNotice]
     ELSE IF action.val = "message"
       THEN [route |-> "message", sent |-> EchoResponse(body.data)]
     ELSE [route |-> "default", sent |-> DefaultResponse(action.val)]

\* The Lambda-emulating server's message listener: a frame that does not
\* parse becomes {action: "$default"}; "message" goes to the message
\* handler and every other action to the default handler.
RouteHandler(body) ==
  LET parsed == JsonParse(body)
      action == IF parsed.kind = "ok" THEN ActionOf(parsed.val)
                ELSE Ok("$default")
  IN IF action.kind = "throw" THEN "catch"
     ELSE IF action.val = "message" THEN "messageHandler"
     ELSE "defaultHandler"

\* What the Lambda-emulating listener sends when dispatching throws.
FailedRequestNotice ==
  [NoSent EXCEPT !.error = "Failed to process message",
                 !.message = "Invalid request"]

\* The Lambda-emulating listener as a whole: the handler chosen and what
\* the listener itself sends back.
EmulatorListener(body) ==
  LET route == RouteHandler(body)
  IN [route |-> route,
      sent |-> IF route = "catch" THEN FailedRequestNotice ELSE NoSent]

NoJwksCall ==
  [called |-> FALSE, seen |-> NoCache, pre |-> NoCache, at |-> 0,
   fetched |-> FALSE, fetchOk |-> FALSE, out |-> "none", keys |-> {}]

NoStep ==
  [op |-> "none", id |-> Absent, done |-> FALSE, status |-> 0,
   tok |-> Absent, nosrc |-> FALSE, auth |-> "none", err |-> <<>>,
   writes |-> 0, fetches |-> 0, saveFailed |-> FALSE, keyFound |-> FALSE,
   jw |-> NoJwksCall,
   found |-> FALSE, pushes |-> 0, gone |-> FALSE, out |-> "none",
   trace |-> <<>>, repeat |-> FALSE, afterClosed |-> FALSE,
   ev |-> NoSourceEvent, res |-> Ok(Absent),
   body |-> NoBody, sent |-> NoSent, route |-> "none"]

AuthKind(auth) ==
  CASE auth.kind = "throw" -> "thrown"
    [] auth.authenticated -> "passed"
    [] OTHER -> "failed"

Init ==
  /\ now = 0
  /\ jwksCache = NoCache
  /\ idpKeys = {"k1"}
  /\ registry = EmptyRegistry
  /\ conn = [id \in ConnIds |-> Idle]
  /\ admitted = {}
  /\ last = NoStep

(* ------------------------------------------------------------------ *)
(* $connect: connect.ts handler, run up to each await that suspends it *)
(* ------------------------------------------------------------------ *)

\* No source of the event yields a token (history, for the claims).
NoTokenInSources(ev) ==
  /\ ~Truthy(ev.qsp)
  /\ ev.mv = <<Absent>> \/ Len(ev.mv) = 0 \/ ~Truthy(ev.mv[1])
  /\ ev.path \in {Absent, "noMatch"}
  /\ ~ev.auth.present \/ ev.auth.val = ""

\* connect.ts lines 34-46: the handler resumes with the settled
\* authenticateConnection and either answers or calls saveConnection.
\* The step just taken left id Closed: it was disconnected, or its $connect
\* event was answered with a status other than 200.
JustClosed(id) ==
  /\ last.id = id /\ last.done
  /\ \/ last.op = "disconnect"
     \/ last.op = "connect" /\ last.status # 200

Settle(id, tok, nosrc, auth, fetches, jw, ac) ==
  LET d == AfterAuth(auth)
      keyFound == jw.out = "ok" /\ Kid(tok) \in jw.keys
      step == [NoStep EXCEPT !.op = "connect", !.id = id, !.tok = tok,
                 !.nosrc = nosrc, !.auth = AuthKind(auth), !.err = auth.error,
                 !.fetches = fetches, !.keyFound = keyFound, !.jw = jw,
                 !.afterClosed = ac]
  IN IF d = "save"
     THEN /\ conn' = [conn EXCEPT ![id] =
                 [pc |-> "saving", tok |-> tok, nosrc |-> nosrc, at |-> 0,
                  seen |-> NoCache, auth |-> auth, fetches |-> fetches,
                  keyFound |-> keyFound, afterClosed |-> ac]]
          /\ last' = step
     ELSE /\ conn' = [conn EXCEPT ![id] = Idle]
          /\ last' = [step EXCEPT !.done = TRUE,
                        !.status = IF d = "reject401" THEN 401 ELSE 500]

\* The $connect event ev arrives for id: connect.ts lines 16-34, then
\* authenticateConnection (auth.service.ts 166-178), validateToken (56-77)
\* and getJwks (23-35), up to the first call that suspends the handler.
\* ac is history only: whether the id was Closed when the event arrived.
ConnectArrives(id, ev, ac) ==
  /\ conn[id].pc = "idle"
  /\ LET tr == extractTokenFromEvent(ev)
         nosrc == NoTokenInSources(ev)
         tok == IF tr.kind = "ok" THEN tr.val ELSE Absent
         pre == ValidateBeforeJwks(tok)
     IN IF tr.kind = "throw"
          THEN Settle(id, tok, nosrc, AuthCatch(tr), 0, NoJwksCall, ac)
        ELSE IF ~Truthy(tok)
          THEN Settle(id, tok, nosrc, NoTokenResult, 0, NoJwksCall, ac)
        ELSE IF pre.kind = "throw"
          THEN Settle(id, tok, nosrc, AuthFromValidation(pre), 0, NoJwksCall, ac)
        ELSE IF CacheFresh(jwksCache, now)
          THEN Settle(id, tok, nosrc,
                 AuthFromValidation(ValidateAfterJwks(tok, Ok(jwksCache.keys))),
                 0,
                 [called |-> TRUE, seen |-> jwksCache, pre |-> jwksCache,
                  at |-> now, fetched |-> FALSE, fetchOk |-> FALSE,
                  out |-> "ok", keys |-> jwksCache.keys],
                 ac)
        ELSE /\ conn' = [conn EXCEPT ![id] =
                   [pc |-> "fetching", tok |-> tok, nosrc |-> nosrc, at |-> now,
                    seen |-> jwksCache, auth |-> AuthFailed(<<>>),
                    fetches |-> 0, keyFound |-> FALSE, afterClosed |-> ac]]
             /\ last' = [NoStep EXCEPT !.op = "connect", !.id = id, !.tok = tok,
                           !.nosrc = nosrc, !.afterClosed = ac]
  /\ UNCHANGED <<now, jwksCache, idpKeys, registry, admitted>>

ConnectStart(id, ev) == ConnectArrives(id, ev, FALSE)

\* axios.get settles for the getJwks call of id's handler: auth.service.ts
\* lines 35-47, then validateToken 78-97, authenticateConnection 180-193 and
\* connect.ts 36-46.
FetchReturn(id, ok) ==
  /\ conn[id].pc = "fetching"
  /\ LET c == conn[id]
         newCache == CacheAfterFetch(jwksCache, ok, idpKeys, c.at)
         jwks == IF ok THEN Ok(newCache.keys) ELSE FetchFailed(jwksCache)
         jw == [called |-> TRUE, seen |-> c.seen, pre |-> jwksCache, at |-> c.at,
                fetched |-> TRUE, fetchOk |-> ok, out |-> jwks.kind,
                keys |-> IF jwks.kind = "ok" THEN jwks.val ELSE {}]
     IN /\ jwksCache' = newCache
        /\ Settle(id, c.tok, c.nosrc,
                  AuthFromValidation(ValidateAfterJwks(c.tok, jwks)),
                  c.fetches + 1, jw,
                  c.afterClosed)
  /\ UNCHANGED <<now, idpKeys, registry, admitted>>

\* saveConnection settles: connect.ts lines 51-68.
SaveReturn(id, saved) ==
  /\ conn[id].pc = "saving"
  /\ LET c == conn[id]
         over == AfterSave(saved) = "return"
     IN /\ registry' = IF saved THEN Put(registry, id, ConnectionItem(id, c.auth.user))
                       ELSE registry
        /\ admitted' = IF saved /\ c.auth.authenticated THEN admitted \cup {id}
                       ELSE admitted
        /\ last' = [NoStep EXCEPT !.op = "connect", !.id = id, !.tok = c.tok,
                      !.nosrc = c.nosrc, !.auth = AuthKind(c.auth),
                      !.err = c.auth.error, !.fetches = c.fetches,
                      !.keyFound = c.keyFound, !.done = over,
                      !.status = IF over THEN StatusAfterSave(saved) ELSE 0,
                      !.writes = IF saved THEN 1 ELSE 0,
                      !.saveFailed = ~saved, !.afterClosed = c.afterClosed]
        /\ conn' = [conn EXCEPT ![id] = IF over THEN Idle ELSE c]
  /\ UNCHANGED <<now, jwksCache, idpKeys>>

(* ------------------------------------------------------------------ *)
(* $disconnect and message events                                      *)
(* ------------------------------------------------------------------ *)

\* The $disconnect handler: deletes the registry record and answers 200.
Disconnect(id) ==
  /\ registry' = Delete(registry, id)
  /\ admitted' = admitted \ {id}
  /\ last' = [NoStep EXCEPT !.op = "disconnect", !.id = id, !.done = TRUE,
                !.status = 200, !.found = id \in DOMAIN registry,
                !.repeat = (last.op = "disconnect" /\ last.id = id)]
  /\ UNCHANGED <<now, jwksCache, idpKeys, conn>>

\* The push to the client: pushOk is the transport's answer to the one
\* PostToConnection request (FALSE: GoneException).
sendMessageToClient(pushOk) ==
  IF pushOk THEN Ok("sent") ELSE Throw(<<"GoneException">>)

\* The payload handleMessage builds.
HelloResponse == "Hello World"

handleMessageSkipsLookupCheck(id, found, pushOk) ==
  LET sent == sendMessageToClient(pushOk)
  IN IF sent.kind = "throw"
       THEN [res |-> sent, trace |-> <<"getConnection", "push">>]
       ELSE [res |-> Ok(HelloResponse),
             trace |-> <<"getConnection", "push", "return">>]

handleMessagePushNotAwaited(id, found, pushOk) ==
  IF ~found
    THEN [res |-> Throw(<<"Connection ", id, " not found">>),
          trace |-> <<"getConnection">>]
    ELSE [res |-> Ok(HelloResponse),
          trace |-> <<"getConnection", "return", "push">>]

\* message.service.ts handleMessage: look the connection up, throw when
\* there is no record, else push the response and return it; whatever is
\* thrown is logged and rethrown. trace lists the calls in program order.
handleMessage(id, found, pushOk) ==
  IF ~found
    THEN [res |-> Throw(<<"Connection ", id, " not found">>),
          trace |-> <<"getConnection">>]
    ELSE LET sent == sendMessageToClient(pushOk)
         IN IF sent.kind = "throw"
              THEN [res |-> sent, trace |-> <<"getConnection", "push">>]
              ELSE [res |-> Ok(HelloResponse),
                    trace |-> <<"getConnection", "push", "return">>]

PushCount(trace) == Cardinality({i \in DOMAIN trace : trace[i] = "push"})

RegistryAfterMessageUpserts(reg, id) ==
  IF id \in DOMAIN reg THEN reg ELSE Put(reg, id, ConnectionItem(id, NoUser))

\* handleMessage only reads the registry (getConnection): the registry
\* after the event is the registry before it.
RegistryAfterMessage(reg, id) == reg

\* A message event routed to handleMessage.
HandleMessage(id, pushOk) ==
  /\ LET found == id \in DOMAIN registry
         r == handleMessage(id, found, pushOk)
     IN last' = [NoStep EXCEPT !.op = "message", !.id = id, !.done = TRUE,
                   !.found = found,
                   !.pushes = PushCount(r.trace),
                   !.gone = r.res.msg = <<"GoneException">>,
                   !.out = IF r.res.kind = "ok" THEN r.res.val ELSE "throw",
                   !.err = r.res.msg,
                   !.trace = r.trace]
  /\ registry' = RegistryAfterMessage(registry, id)
  /\ UNCHANGED <<now, jwksCache, idpKeys, conn, admitted>>

(* ------------------------------------------------------------------ *)
(* Environment                                                         *)
(* ------------------------------------------------------------------ *)

\* Time passes.
Tick ==
  /\ now < MaxTicks * TickMs
  /\ now' = now + TickMs
  /\ last' = [NoStep EXCEPT !.op = "tick"]
  /\ UNCHANGED <<jwksCache, idpKeys, registry, conn, admitted>>

\* The identity provider starts publishing a new signing key.
RotateKeys ==
  /\ idpKeys = {"k1"}
  /\ idpKeys' = {"k1", "k2"}
  /\ last' = [NoStep EXCEPT !.op = "rotate"]
  /\ UNCHANGED <<now, jwksCache, registry, conn, admitted>>

Next ==
  \/ \E id \in ConnIds, ev \in ConnectEvents : ConnectStart(id, ev)
  \/ \E id \in ConnIds, ok \in BOOLEAN : FetchReturn(id, ok)
  \/ \E id \in ConnIds, saved \in BOOLEAN : SaveReturn(id, saved)
  \/ \E id \in ConnIds : Disconnect(id)
  \/ \E id \in ConnIds, pushOk \in BOOLEAN : HandleMessage(id, pushOk)
  \/ Tick
  \/ RotateKeys

Spec == Init /\ [][Next]_vars

(* ------------------------------------------------------------------ *)
(* The lifecycle of a connection id, with the history of Closed kept   *)
(* ------------------------------------------------------------------ *)

\* The same $connect handler, recording whether the event arrived right
\* after the id became Closed.
ConnectStartTracked(id, ev) == ConnectArrives(id, ev, JustClosed(id))

NextLifecycle ==
  \/ \E id \in ConnIds, ev \in ConnectEvents : ConnectStartTracked(id, ev)
  \/ \E id \in ConnIds, ok \in BOOLEAN : FetchReturn(id, ok)
  \/ \E id \in ConnIds, saved \in BOOLEAN : SaveReturn(id, saved)
  \/ \E id \in ConnIds : Disconnect(id)
  \/ \E id \in ConnIds, pushOk \in BOOLEAN : HandleMessage(id, pushOk)

SpecLifecycle == Init /\ [][NextLifecycle]_vars

\* The lifecycle with every pending external call of a $connect handler
\* (the key fetch, the registry write) eventually settling, one way or the
\* other.
SpecTermination ==
  /\ Init /\ [][NextLifecycle]_vars
  /\ \A id \in ConnIds :
       /\ WF_vars(\E ok \in BOOLEAN : FetchReturn(id, ok))
       /\ WF_vars(\E saved \in BOOLEAN : SaveReturn(id, saved))

(* ------------------------------------------------------------------ *)
(* The operations that read no shared state, applied to every input    *)
(* ------------------------------------------------------------------ *)

\* extractTokenFromEvent applied to one $connect event.
ExtractToken(ev) ==
  /\ last' = [NoStep EXCEPT !.op = "extract", !.ev = ev,
                !.res = extractTokenFromEvent(ev)]
  /\ UNCHANGED <<now, jwksCache, idpKeys, registry, conn, admitted>>

\* The standalone server receives one frame.
LocalMessage(body) ==
  /\ LET r == LocalListener(body)
     IN last' = [NoStep EXCEPT !.op = "local", !.body = body,
                   !.route = r.route, !.sent = r.sent]
  /\ UNCHANGED <<now, jwksCache, idpKeys, registry, conn, admitted>>

\* The Lambda-emulating server receives one frame and picks the handler.
EmulatorMessage(body) ==
  /\ LET r == EmulatorListener(body)
     IN last' = [NoStep EXCEPT !.op = "emulator", !.body = body,
                   !.route = r.route, !.sent = r.sent]
  /\ UNCHANGED <<now, jwksCache, idpKeys, registry, conn, admitted>>

NextStateless ==
  \/ \E ev \in EventSpace : ExtractToken(ev)
  \/ \E body \in Bodies : LocalMessage(body)
  \/ \E body \in Bodies : EmulatorMessage(body)

SpecStateless == Init /\ [][NextStateless]_vars

(* ------------------------------------------------------------------ *)
(* Claims                                                              *)
(* ------------------------------------------------------------------ *)

HasRecord(id) == id \in DOMAIN registry

ConnectDone == last.op = "connect" /\ last.done

\* The getJwks call that settled in the last step found the cache it read
\* at its start present and younger than the TTL.
SawFreshCache(j) ==
  j.called /\ j.seen.present /\ j.at - j.seen.timestamp < JWKS_CACHE_TTL

\* C1: in every reachable state a connection id has a registry record if and
\* only if its admission succeeded and it has not been disconnected since.
C1_RecordIffAdmitted ==
  \A id \in ConnIds : HasRecord(id) <=> id \in admitted

C1_Witness ==
  /\ HasRecord("c1")
  /\ last.op = "disconnect" /\ last.id = "c2" /\ last.found

\* C2: a step of a $connect event whose authentication has not passed
\* performs no registry write and leaves the registry unchanged.
C2_FailedAuthWritesNothing ==
  [][(last'.op = "connect" /\ last'.auth # "passed")
       => (last'.writes = 0 /\ registry' = registry)]_vars

C2_Witness ==
  /\ ConnectDone /\ last.auth = "failed" /\ last.fetches = 1
  /\ registry # EmptyRegistry

\* C3: a $connect event none of whose sources yields a token is answered
\* 401 at once and the registry is left as it was.
C3_NoTokenUnauthorized ==
  [][(last'.op = "connect" /\ last'.nosrc)
       => (last'.done /\ last'.status = 401 /\ registry' = registry)]_vars

C3_Witness ==
  /\ ConnectDone /\ last.nosrc /\ last.status = 401
  /\ last.err = <<"No authentication token provided">>
  /\ ~HasRecord(last.id)

\* The userId the handler stores for a token: its sub, else its username.
StoredUserId(t) == IF Truthy(Sub(t)) THEN Sub(t) ELSE Username(t)

\* C4 as stated: every $connect event with a valid token ends with 200 and
\* a record with isAuthenticated = true and userId = the token's sub.
C4_Original ==
  (ConnectDone /\ ValidToken(last.tok))
    => /\ last.status = 200
       /\ HasRecord(last.id)
       /\ registry[last.id].isAuthenticated
       /\ registry[last.id].userId = Sub(last.tok)

\* C4 amended: a $connect event with a valid token whose key id is in the
\* key set getJwks returned and whose registry write succeeds ends with 200
\* and a record with isAuthenticated = true and userId = the token's sub
\* (its username when it carries no sub).
C4_ValidTokenAdmitted ==
  (ConnectDone /\ ValidToken(last.tok) /\ last.keyFound /\ ~last.saveFailed)
    => /\ last.status = 200
       /\ HasRecord(last.id)
       /\ registry[last.id].isAuthenticated
       /\ registry[last.id].userId = StoredUserId(last.tok)
       /\ registry[last.id].connectionId = last.id

C4_Witness ==
  /\ ConnectDone /\ last.tok = "tA" /\ last.status = 200
  /\ HasRecord(last.id) /\ registry[last.id].userId = "u1"

\* C5: authenticateConnection always settles with a result value, never an
\* exception; a failure carries authenticated = false and an error message.
C5_AuthNeverThrows ==
  (last.op = "connect" /\ last.auth # "none")
    => /\ last.auth \in {"passed", "failed"}
       /\ last.auth = "failed" => Len(last.err) > 0

C5_Witness ==
  /\ ConnectDone /\ last.auth = "failed"
  /\ last.err = <<"URI malformed">>

\* The key fetch of the event failed while no key set was cached.
KeyFetchFailedNoCache ==
  last.jw.called /\ last.jw.fetched /\ ~last.jw.fetchOk /\ ~last.jw.pre.present

C7_StaleKeysOnFetchFailure ==
  (last.jw.called /\ last.jw.fetched /\ ~last.jw.fetchOk /\ last.jw.seen.present)
    => (last.jw.out = "ok" /\ last.jw.keys = last.jw.seen.keys)

\* C8: when the token's key id is missing from the cached, unexpired key
\* set, validation makes exactly one fetch before it reports the key missing.
C8_RefetchOnKeyMiss ==
  (last.op = "connect" /\ SawFreshCache(last.jw)
     /\ Kid(last.tok) \notin last.jw.seen.keys)
    => last.fetches = 1

\* C9: at most one fetch to the identity provider is in flight at any time.
C9_SingleFetchInFlight ==
  Cardinality({id \in ConnIds : conn[id].pc = "fetching"}) <= 1

\* C10: a getJwks call that finds the cache present and younger than the
\* TTL returns exactly the cached keys, fetches nothing and leaves the cache
\* as it was.
C10_FreshCacheHit ==
  SawFreshCache(last.jw)
    => /\ last.jw.out = "ok"
       /\ last.jw.keys = last.jw.seen.keys
       /\ ~last.jw.fetched
       /\ jwksCache = last.jw.seen

C10_Witness ==
  /\ SawFreshCache(last.jw) /\ ~last.jw.fetched
  /\ last.jw.at - last.jw.seen.timestamp = TickMs
  /\ last.jw.keys = {"k1"}

\* The getJwks call that settled in the last step found the cache it read
\* at its start present and at least one TTL old.
SawExpiredCache(j) ==
  j.called /\ j.seen.present /\ j.at - j.seen.timestamp >= JWKS_CACHE_TTL

\* C11: a getJwks call that finds the cached key set at least one TTL old
\* makes exactly one fetch and, when the fetch succeeds, replaces the cached
\* keys by the fetched ones and sets the timestamp to the time the call read.
C11_ExpiredCacheRefetched ==
  SawExpiredCache(last.jw)
    => /\ last.jw.fetched /\ last.fetches = 1
       /\ last.jw.fetchOk
            => /\ jwksCache = [present |-> TRUE, keys |-> idpKeys,
                               timestamp |-> last.jw.at]
               /\ last.jw.keys = idpKeys

C11_Witness ==
  /\ SawExpiredCache(last.jw) /\ last.jw.fetchOk
  /\ last.jw.seen.keys = {"k1"} /\ jwksCache.keys = {"k1", "k2"}
  /\ jwksCache.timestamp = JWKS_CACHE_TTL

\* C12: a valid token whose key id is in the cached key set is accepted by
\* validateToken whatever the state of the cache (fresh, expired, expired
\* with the fetch failing).
C12_ValidTokenCachedKeyAccepted ==
  (last.op = "connect" /\ last.jw.called /\ ValidToken(last.tok)
     /\ last.jw.seen.present /\ Kid(last.tok) \in last.jw.seen.keys)
    => last.auth = "passed"

\* C13: when the push of a message event is answered Gone, the registry has
\* no record for that connection id once the event has finished.
C13_GonePushEvictsRecord ==
  (last.op = "message" /\ last.gone) => ~HasRecord(last.id)

ConnectionNotFound(id) == <<"Connection ", id, " not found">>

\* C14: a message event for a connection id without a registry record is
\* answered by throwing "Connection <id> not found" to the caller, pushes
\* nothing, and leaves every connection and the registry as they were.
C14_UnknownConnectionRejected ==
  [][(last'.op = "message" /\ ~HasRecord(last'.id))
       => /\ last'.out = "throw" /\ last'.err = ConnectionNotFound(last'.id)
          /\ last'.pushes = 0 /\ ~last'.gone
          /\ UNCHANGED <<registry, conn, jwksCache>>]_vars

C14_Witness ==
  /\ last.op = "message" /\ last.id = "c2" /\ ~last.found
  /\ last.err = ConnectionNotFound("c2") /\ last.pushes = 0
  /\ HasRecord("c1")

\* C15 as stated: every message event for a connection id with a registry
\* record pushes once and then returns {message: "Hello World"}.
C15_Original ==
  (last.op = "message" /\ last.found)
    => last.trace = <<"getConnection", "push", "return">>
       /\ last.out = HelloResponse

\* C15: a message event for a connection id with a registry record pushes
\* {message: "Hello World"} exactly once, after the lookup; when the push
\* succeeds it then returns the same payload, the return following the
\* push, and when the push fails it returns nothing and rethrows the
\* failure.
C15_PushOnceThenReturn ==
  (last.op = "message" /\ last.found)
    => /\ last.pushes = 1
       /\ \/ /\ last.trace = <<"getConnection", "push", "return">>
             /\ last.out = HelloResponse /\ last.err = <<>>
          \/ /\ last.trace = <<"getConnection", "push">>
             /\ last.out = "throw" /\ last.gone

C15_Witness ==
  /\ last.op = "message" /\ last.found /\ last.out = HelloResponse
  /\ last.trace = <<"getConnection", "push", "return">>
  /\ HasRecord(last.id)

\* The frame parsed to an object whose action is not "message".
UnregisteredAction(body) == body.json = "object" /\ body.action # "message"

\* C16: a frame whose action is anything but "message", a missing action
\* included, goes to the default handler, and the default answer names the
\* action received ("undefined" for a missing or empty one) and carries no
\* error.
C16_UnknownActionToDefault ==
  /\ (last.op = "local" /\ UnregisteredAction(last.body))
       => /\ last.route = "default"
          /\ last.sent.receivedAction =
               (IF last.body.action \in {Absent, ""} THEN "undefined"
                ELSE last.body.action)
          /\ last.sent.error = Absent
  /\ (last.op = "emulator" /\ UnregisteredAction(last.body))
       => last.route = "defaultHandler"

C16_Witness ==
  /\ last.op = "local" /\ last.body.action = "ping"
  /\ last.route = "default" /\ last.sent.receivedAction = "ping"

C18_ClosedIsTerminal ==
  /\ (ConnectDone /\ last.afterClosed)
       => (last.status # 200 /\ ~HasRecord(last.id))
  /\ (last.op = "disconnect" /\ last.repeat) => ~HasRecord(last.id)

\* C19: every record in the registry, in every reachable state, carries
\* isAuthenticated = TRUE and the user id of a token that passes validation.
C19_RecordsAuthenticated ==
  \A id \in DOMAIN registry :
    /\ "isAuthenticated" \in DOMAIN registry[id]
    /\ registry[id].isAuthenticated = TRUE
    /\ \E t \in Tokens : ValidToken(t) /\ registry[id].userId = StoredUserId(t)

C19_Witness ==
  /\ ConnectDone /\ last.status = 200 /\ last.tok = "tB"
  /\ DOMAIN registry = ConnIds
  /\ \A id \in ConnIds : registry[id].isAuthenticated

\* The value each of the four sources of a $connect event yields, in the
\* order of precedence, Absent for a source that is absent or empty.
SourceValues(ev) ==
  << IF Truthy(ev.qsp) THEN ev.qsp ELSE Absent,
     IF ev.mv # <<Absent>> /\ Len(ev.mv) > 0 /\ Truthy(ev.mv[1])
       THEN ev.mv[1] ELSE Absent,
     IF ev.path \notin {Absent, "noMatch", "malformed"} THEN ev.path
       ELSE Absent,
     IF ev.auth.present /\ Truthy(ev.auth.val) THEN ev.auth.val ELSE Absent >>

FirstYield(ev) ==
  LET vs == SourceValues(ev)
      ys == {i \in 1..4 : vs[i] # Absent}
  IN IF ys = {} THEN Absent
     ELSE vs[CHOOSE i \in ys : \A j \in ys : i <= j]

\* C20: for every combination of present, absent and empty sources,
\* extractTokenFromEvent returns the value of the first source that yields
\* one, and returns no token exactly when none of the four yields one.
C20_FirstYieldingSourceWins ==
  last.op = "extract"
    => /\ last.res.kind = "ok"
       /\ IF FirstYield(last.ev) = Absent THEN ~Truthy(last.res.val)
          ELSE last.res.val = FirstYield(last.ev)

\* The frame does not parse to an object with action and data.
Malformed(body) == body.json # "object"

\* C21: a malformed frame is answered by the listener with an explicit
\* notice carrying an error, and is not passed to the message or the
\* default handling as a well-formed message would be.
C21_MalformedAnsweredWithNotice ==
  (last.op \in {"local", "emulator"} /\ Malformed(last.body))
    => /\ last.route = "catch"
       /\ last.sent.error # Absent

\* C22: when the $disconnect event of a connection id has been handled
\* while the $connect event of the same id was still in flight, the
\* registry holds no record for the id once the $connect handler has
\* completed as well.
C22_DisconnectDuringConnect ==
  [][(/\ last.op = "disconnect" /\ conn[last.id].pc # "idle"
      /\ last'.op = "connect" /\ last'.id = last.id /\ last'.done)
       => ~HasRecord(last.id)']_vars

\* C23: once the $connect handler has answered a connection with a status
\* other than 200, no message event is dispatched to the message handling
\* for that connection id.
C23_NoDispatchAfterRejection ==
  [][(ConnectDone /\ last.status # 200)
       => ~(last'.op = "message" /\ last'.id = last.id)]_vars

\* C24: a message event creates no registry record and changes none: with
\* no record for the id the registry is left as it was, and with one the
\* record is left as it was unless the push was answered Gone.
C24_MessageLeavesRegistry ==
  [][last'.op = "message"
       => /\ DOMAIN registry' \subseteq DOMAIN registry
          /\ \A x \in DOMAIN registry' :
               x # last'.id => registry'[x] = registry[x]
          /\ ~last'.found => registry' = registry
          /\ (last'.found /\ ~last'.gone)
               => (last'.id \in DOMAIN registry'
                   /\ registry'[last'.id] = registry[last'.id])]_vars

C24_Witness ==
  /\ last.op = "message" /\ last.id = "c1" /\ last.found /\ ~last.gone
  /\ DOMAIN registry = {"c1"} /\ registry["c1"].userId = "u1"

CallCount(trace, call) ==
  Cardinality({i \in DOMAIN trace : trace[i] = call})

\* C25: nothing is retried. A $connect event makes at most one fetch and at
\* most one registry write, a failed fetch or a failed write ending the
\* event at once; a message event makes one registry read and at most one
\* push, a failed push ending the event at once.
C25_NoRetries ==
  /\ last.op = "connect"
       => /\ last.fetches \in {0, 1} /\ last.writes \in {0, 1}
          /\ last.jw.fetched => last.fetches = 1
          /\ (last.jw.fetched /\ ~last.jw.fetchOk)
               => (last.done /\ last.auth # "passed" /\ last.writes = 0)
          /\ last.saveFailed
               => (last.done /\ last.status = 500 /\ last.writes = 0)
  /\ last.op = "message"
       => /\ CallCount(last.trace, "getConnection") = 1
          /\ last.pushes = CallCount(last.trace, "push")
          /\ last.pushes <= 1
          /\ last.gone => (last.pushes = 1 /\ last.out = "throw")

C25_Witness ==
  /\ ConnectDone /\ last.saveFailed /\ last.fetches = 1 /\ last.writes = 0
  /\ last.status = 500

\* C26: a getJwks call whose fetch fails leaves the cache exactly as it was
\* before the fetch settled, and every change of the cache installs a whole
\* successfully fetched key set together with the timestamp of its call.
C26_FailedFetchLeavesCache ==
  [][/\ (last'.jw.fetched /\ ~last'.jw.fetchOk) => jwksCache' = jwksCache
     /\ jwksCache' # jwksCache
          => /\ last'.jw.fetched /\ last'.jw.fetchOk
             /\ jwksCache' = [present |-> TRUE, keys |-> last'.jw.keys,
                              timestamp |-> last'.jw.at]
             /\ last'.jw.keys = idpKeys]_vars

C26_Witness ==
  /\ last.jw.fetched /\ ~last.jw.fetchOk
  /\ last.jw.pre.present /\ jwksCache = last.jw.pre
  /\ jwksCache.keys = {"k1"}

\* C27: under every interleaving of getJwks calls the timestamp of the
\* cache never decreases.
C27_TimestampMonotonic ==
  [][jwksCache'.timestamp >= jwksCache.timestamp]_vars

\* C28: the $connect handler always ends by returning a response with
\* status 200, 401 or 500, never by throwing; 401 answers a failed
\* authentication, 500 a thrown one or a failed registry write, and 200 is
\* returned only once the registry write has succeeded.
C28_ConnectAlwaysAnswers ==
  last.op = "connect"
    => /\ last.done <=> conn[last.id].pc = "idle"
       /\ last.done
            => /\ last.status \in {200, 401, 500}
               /\ last.status = 200
                    => /\ last.auth = "passed" /\ last.writes = 1
                       /\ ~last.saveFailed /\ HasRecord(last.id)
               /\ last.status = 401 => (last.auth = "failed" /\ last.writes = 0)
               /\ last.status = 500 => last.writes = 0

C28_Witness ==
  /\ ConnectDone /\ last.status = 200 /\ last.writes = 1 /\ last.fetches = 0
  /\ last.tok = "tB" /\ HasRecord(last.id) /\ last.auth = "passed"

\* C29: every $connect event in flight eventually completes, given that its
\* pending external call eventually settles; message events complete in the
\* step that handles them.
C29_EveryEventCompletes ==
  \A id \in ConnIds : (conn[id].pc # "idle") ~> (conn[id].pc = "idle")

C29_Witness ==
  /\ ConnectDone /\ last.fetches = 1 /\ last.writes = 1 /\ last.status = 200
  /\ \E id \in ConnIds : conn[id].pc = "saving"

====
